---- MODULE Spec2Model ----
(***************************************************************************)
(* Model of tools/svg-to-3dprint/svg2stl.py (specification Spec): the     *)
(* pipeline of main() and the mesh generator heightmap_to_stl(), and of    *)
(* tools/compress_old_files.py (specification SpecArchive): run_main().    *)
(* Each specification holds the variables of the other program still.      *)
(* Arrays are functions over                                               *)
(* <<y, x>> (numpy indexing order), vertex_map is keyed by                 *)
(* <<x, y, "top"|"bottom">> as in the source, vertex indices are 0-based   *)
(* as in the source (vertices[i + 1] is the i-th vertex).  Lengths are     *)
(* integers: heights in units of a millimetre, x and y in units of         *)
(* scale_xy.                                                               *)
(***************************************************************************)
EXTENDS Integers, Sequences, FiniteSets, TLC

\* Largest number of pixels (h * w) of an input image.
MaxCells == 9

\* Largest age in months of a month folder, and largest --min-age.
MaxAge == 3

\* argparse defaults of main().
color_count == 5
base_height == 2
step_height == 1

VARIABLES
    entry,              \* "main" (command line) or "heightmap_to_stl" (called directly)
    h, w,               \* image shape
    image,              \* per pixel: -1 if alpha < alpha_threshold, else its brightness-sorted cluster
    scale_xy,
    colors,             \* len(colors) returned by reduce_colors_kmeans
    transparency_mask,
    level_image,
    heightmap,
    extrusion_mask,
    vertices,
    vertex_map,
    faces,
    stl_file,           \* [written, vectors]: what stl_mesh.save() put at output_path
    stdout,             \* the messages printed, in order
    mask_reads,         \* the subscripts <<y, x>> extrusion_mask was read at so far
    pc

\* compress_old_files.py.  A path is named by the stem of its month folder:
\* every month folder holds one project folder.  The lists of the source
\* are kept as the set of items the loop has not finished, since the order
\* of iterdir() is arbitrary.
VARIABLES
    now,                    \* datetime.datetime.now(): [year, month]
    args,                   \* [given, min_age]: --min-age of the command line
    basedir,                \* stem |-> [is_dir, input, gcode]: the tree at the start
    min_age_months,         \* local of run_main
    input_dirs_to_compress, \* input folders compress_and_delete_folder has yet to finish
    item,                   \* the input folder in work
    archive,                \* stem |-> "none", "written", "good", "bad": <input folder>.zip
    input_exists,           \* stem |-> the input folder is on disk
    old_month_folders,      \* month folders compress_and_delete_gcode_files has yet to finish
    project,                \* the project folder in work
    gcode_archive,          \* stem |-> [state, members]: <project>-gcodearchive.zip
    gcode_files,            \* stem |-> the *.gcode files on disk
    stats_count,            \* count of the statistics summed so far
    apc

mesh_vars == <<entry, h, w, image, scale_xy, colors, transparency_mask, level_image,
               heightmap, extrusion_mask, vertices, vertex_map, faces, stl_file,
               stdout, mask_reads, pc>>

archive_vars == <<now, args, basedir, min_age_months, input_dirs_to_compress, item,
                  archive, input_exists, old_month_folders, project, gcode_archive,
                  gcode_files, stats_count, apc>>

vars == <<mesh_vars, archive_vars>>

\* The archive tool is not running.
ArchiveIdle ==
    /\ now = <<>>
    /\ args = <<>>
    /\ basedir = <<>>
    /\ min_age_months = 0
    /\ input_dirs_to_compress = {}
    /\ item = <<>>
    /\ archive = <<>>
    /\ input_exists = <<>>
    /\ old_month_folders = {}
    /\ project = <<>>
    /\ gcode_archive = <<>>
    /\ gcode_files = <<>>
    /\ stats_count = 0
    /\ apc = "idle"

----------------------------------------------------------------------------
\* Helpers for the loops of the source.

\* for y in range(hh): for x in range(ww): the cells <<y, x>> in row-major order.
RowMajor(hh, ww) ==
    [k \in 1..(hh * ww) |-> <<(k - 1) \div ww, (k - 1) % ww>>]

Shapes == {s \in (1..MaxCells) \X (1..MaxCells) : s[1] * s[2] <= MaxCells}

Pixels(hh, ww) == (0..(hh - 1)) \X (0..(ww - 1))

\* The cluster patterns the inputs are drawn from: pixel (x, y) falls in the
\* cluster of brightness rank (a*x + b*y) % color_count.
Patterns == {<<0, 0>>, <<1, 2>>}

ImageOf(hh, ww, opaque, p) ==
    [c \in Pixels(hh, ww) |->
        IF opaque[c] THEN (p[1] * c[2] + p[2] * c[1]) % color_count ELSE -1]

----------------------------------------------------------------------------
\* reduce_colors_kmeans: the transparency mask and the number of colours.

TransparencyMask(img) == [c \in DOMAIN img |-> img[c] < 0]

Min(a, b) == IF a <= b THEN a ELSE b

NumColors(img) ==
    LET n == Cardinality({c \in DOMAIN img : img[c] >= 0})
    IN  IF n = 0 THEN 0 ELSE Min(color_count, n)

\* convert_to_grayscale_levels: -1 for transparent pixels, the level otherwise.
convert_to_grayscale_levels(img, ncolors, tmask) ==
    IF ncolors = 0
    THEN [c \in DOMAIN tmask |-> 0]
    ELSE [c \in DOMAIN img |-> IF ~tmask[c] THEN img[c] ELSE -1]

\* create_heightmap: heights and the extrusion mask.
HeightmapOf(lvl) ==
    [c \in DOMAIN lvl |->
        IF lvl[c] >= 0 THEN base_height + lvl[c] * step_height ELSE 0]

ExtrusionMaskOf(lvl) == [c \in DOMAIN lvl |-> lvl[c] >= 0]

----------------------------------------------------------------------------
\* numpy subscripting.

\* arr.shape of a two-dimensional array.
ShapeOf(arr) ==
    <<Cardinality({c[1] : c \in DOMAIN arr}), Cardinality({c[2] : c \in DOMAIN arr})>>

\* arr[y, x] raises IndexError: an index is >= the size or < -size.
IndexErrorAt(hh, ww, y, x) == y >= hh \/ y < -hh \/ x >= ww \/ x < -ww

\* arr[y, x] of a boolean array: a negative index counts from the end; the
\* value is of no use when the subscript raises.
At(arr, y, x) ==
    IF <<y, x>> \in DOMAIN arr
    THEN arr[<<y, x>>]
    ELSE LET sh == ShapeOf(arr)
         IN  IF IndexErrorAt(sh[1], sh[2], y, x)
             THEN FALSE
             ELSE arr[<<y % sh[1], x % sh[2]>>]

----------------------------------------------------------------------------
\* heightmap_to_stl: vertex generation.

\* Mutant of VertexStep: the extrusion mask is not consulted.
VertexStep_AllCells(acc, hm, mask, sc, y, x) ==
    LET vertex_idx == Len(acc.vertices)
    IN  [vertices   |-> acc.vertices
                         \o << <<x * sc, y * sc, hm[<<y, x>>]>>,
                               <<x * sc, y * sc, 0>> >>,
         vertex_map |-> (<<x, y, "bottom">> :> (vertex_idx + 1))
                         @@ (<<x, y, "top">> :> vertex_idx)
                         @@ acc.vertex_map]

\* Mutant of VertexStep: the bottom vertex is appended before the top vertex.
VertexStep_BottomFirst(acc, hm, mask, sc, y, x) ==
    IF mask[<<y, x>>]
    THEN LET vertex_idx == Len(acc.vertices)
         IN  [vertices   |-> acc.vertices
                              \o << <<x * sc, y * sc, 0>>,
                                    <<x * sc, y * sc, hm[<<y, x>>]>> >>,
              vertex_map |-> (<<x, y, "top">> :> (vertex_idx + 1))
                              @@ (<<x, y, "bottom">> :> vertex_idx)
                              @@ acc.vertex_map]
    ELSE acc

\* Mutant of VertexStep: a cell is extruded when its height is positive.
VertexStep_HeightDecides(acc, hm, mask, sc, y, x) ==
    IF hm[<<y, x>>] > 0
    THEN LET vertex_idx == Len(acc.vertices)
         IN  [vertices   |-> acc.vertices
                              \o << <<x * sc, y * sc, hm[<<y, x>>]>>,
                                    <<x * sc, y * sc, 0>> >>,
              vertex_map |-> (<<x, y, "bottom">> :> (vertex_idx + 1))
                              @@ (<<x, y, "top">> :> vertex_idx)
                              @@ acc.vertex_map]
    ELSE acc

\* One iteration of the vertex loop for cell <<y, x>>; acc = [vertices, vertex_map].
VertexStep(acc, hm, mask, sc, y, x) ==
    IF mask[<<y, x>>]
    THEN LET vertex_idx == Len(acc.vertices)
         IN  [vertices   |-> acc.vertices
                              \o << <<x * sc, y * sc, hm[<<y, x>>]>>,
                                    <<x * sc, y * sc, 0>> >>,
              vertex_map |-> (<<x, y, "bottom">> :> (vertex_idx + 1))
                              @@ (<<x, y, "top">> :> vertex_idx)
                              @@ acc.vertex_map]
    ELSE acc

RECURSIVE VertexLoop(_, _, _, _, _, _)
VertexLoop(cells, i, acc, hm, mask, sc) ==
    IF i > Len(cells)
    THEN acc
    ELSE VertexLoop(cells, i + 1,
                    VertexStep(acc, hm, mask, sc, cells[i][1], cells[i][2]),
                    hm, mask, sc)

EmptyMap == [k \in {} |-> 0]

GenerateVertices(hh, ww, hm, mask, sc) ==
    VertexLoop(RowMajor(hh, ww), 1,
               [vertices |-> <<>>, vertex_map |-> EmptyMap], hm, mask, sc)

\* vertex_map[key]; -1 stands for the KeyError of a missing key.
Lookup(vm, key) == IF key \in DOMAIN vm THEN vm[key] ELSE -1

----------------------------------------------------------------------------
\* heightmap_to_stl: top and bottom surfaces.

\* len(extruded_corners) == 4 for the window whose top-left cell is (x, y).
CompleteQuad(mask, y, x) ==
    /\ At(mask, y, x)
    /\ At(mask, y, x + 1)
    /\ At(mask, y + 1, x)
    /\ At(mask, y + 1, x + 1)

\* The subscripts the list comprehension over the four corners reads.
CompleteQuadReads(y, x) ==
    {<<y, x>>, <<y, x + 1>>, <<y + 1, x>>, <<y + 1, x + 1>>}

\* Mutant of TopQuad: the second triangle is forgotten.
TopQuad_OneTriangle(vm, y, x) ==
    << <<Lookup(vm, <<x, y, "top">>),
         Lookup(vm, <<x + 1, y, "top">>),
         Lookup(vm, <<x, y + 1, "top">>)>> >>

\* The two triangles of the top surface of one window.
TopQuad(vm, y, x) ==
    LET v1 == Lookup(vm, <<x, y, "top">>)
        v2 == Lookup(vm, <<x + 1, y, "top">>)
        v3 == Lookup(vm, <<x, y + 1, "top">>)
        v4 == Lookup(vm, <<x + 1, y + 1, "top">>)
    IN  << <<v1, v2, v3>>, <<v2, v4, v3>> >>

\* Mutant of BottomQuad: the winding of the top surface, not reversed.
BottomQuad_NotReversed(vm, y, x) ==
    LET v1 == Lookup(vm, <<x, y, "bottom">>)
        v2 == Lookup(vm, <<x + 1, y, "bottom">>)
        v3 == Lookup(vm, <<x, y + 1, "bottom">>)
        v4 == Lookup(vm, <<x + 1, y + 1, "bottom">>)
    IN  << <<v1, v2, v3>>, <<v2, v4, v3>> >>

\* The two triangles of the bottom surface of one window.
BottomQuad(vm, y, x) ==
    LET v1 == Lookup(vm, <<x, y, "bottom">>)
        v2 == Lookup(vm, <<x + 1, y, "bottom">>)
        v3 == Lookup(vm, <<x, y + 1, "bottom">>)
        v4 == Lookup(vm, <<x + 1, y + 1, "bottom">>)
    IN  << <<v1, v3, v2>>, <<v2, v3, v4>> >>

RECURSIVE TopLoop(_, _, _, _, _)
TopLoop(cells, i, acc, mask, vm) ==
    IF i > Len(cells)
    THEN acc
    ELSE TopLoop(cells, i + 1,
                 IF CompleteQuad(mask, cells[i][1], cells[i][2])
                 THEN acc \o TopQuad(vm, cells[i][1], cells[i][2])
                 ELSE acc,
                 mask, vm)

RECURSIVE BottomLoop(_, _, _, _, _)
BottomLoop(cells, i, acc, mask, vm) ==
    IF i > Len(cells)
    THEN acc
    ELSE BottomLoop(cells, i + 1,
                    IF CompleteQuad(mask, cells[i][1], cells[i][2])
                    THEN acc \o BottomQuad(vm, cells[i][1], cells[i][2])
                    ELSE acc,
                    mask, vm)

\* Mutant of TopFaces: for y in range(h - 2).
TopFaces_ShortRange(hh, ww, mask, vm, fs) ==
    TopLoop(RowMajor(IF hh >= 2 THEN hh - 2 ELSE 0, ww - 1), 1, fs, mask, vm)

\* for y in range(h - 1): for x in range(w - 1)
WindowCells(hh, ww) == RowMajor(hh - 1, ww - 1)

TopFaces(hh, ww, mask, vm, fs) ==
    TopLoop(WindowCells(hh, ww), 1, fs, mask, vm)

BottomFaces(hh, ww, mask, vm, fs) ==
    BottomLoop(WindowCells(hh, ww), 1, fs, mask, vm)

\* The subscripts one surface loop reads.
SurfaceReads(hh, ww) ==
    LET cells == WindowCells(hh, ww)
    IN  UNION {CompleteQuadReads(cells[i][1], cells[i][2]) : i \in 1..Len(cells)}

----------------------------------------------------------------------------
\* heightmap_to_stl: side faces.

\* <<dx, dy>>, in the order of the source.
directions == << <<0, 1>>, <<1, 0>>, <<0, -1>>, <<-1, 0>> >>

\* Mutant of IsEdge: only a neighbour outside the bounds makes an edge.
IsEdge_OutOfGridOnly(mask, hh, ww, nx, ny) ==
    \/ nx < 0
    \/ nx >= ww
    \/ ny < 0
    \/ ny >= hh

\* Mutant of IsEdge: only a neighbour inside the bounds makes an edge.
IsEdge_InGridOnly(mask, hh, ww, nx, ny) ==
    /\ nx >= 0
    /\ nx < ww
    /\ ny >= 0
    /\ ny < hh
    /\ ~mask[<<ny, nx>>]

\* nx < 0 or nx >= w or ny < 0 or ny >= h
OutOfBounds(hh, ww, nx, ny) ==
    \/ nx < 0
    \/ nx >= ww
    \/ ny < 0
    \/ ny >= hh

\* The neighbour is outside the bounds or not extruded.
IsEdge(mask, hh, ww, nx, ny) ==
    \/ OutOfBounds(hh, ww, nx, ny)
    \/ ~At(mask, ny, nx)

\* The condition reads the mask only when the bounds tests all fail.
IsEdgeReads(hh, ww, nx, ny) ==
    IF OutOfBounds(hh, ww, nx, ny) THEN {} ELSE {<<ny, nx>>}

\* The guards of the four branches: the cell below (right/left edge) or to the
\* right (bottom/top edge) is in the grid and extruded.
\* Mutant of BelowInRange: y < h.
BelowInRange_OffByOne(hh, y) == y < hh

BelowInRange(hh, y) == y < hh - 1

RightInRange(ww, x) == x < ww - 1

HasCellBelow(mask, hh, y, x) == BelowInRange(hh, y) /\ At(mask, y + 1, x)

HasCellBelowReads(hh, y, x) == IF BelowInRange(hh, y) THEN {<<y + 1, x>>} ELSE {}

HasCellRightReads(ww, y, x) == IF RightInRange(ww, x) THEN {<<y, x + 1>>} ELSE {}

\* Mutant of HasCellRight: x < w - 2.
HasCellRight_OffByOne(mask, ww, y, x) == x < ww - 2 /\ mask[<<y, x + 1>>]

HasCellRight(mask, ww, y, x) == RightInRange(ww, x) /\ At(mask, y, x + 1)

\* The faces of the four branches; v1 is cell (x, y), v2 the cell below
\* (right/left edge) or to the right (bottom/top edge).
\* Mutant of RightEdgeFaces: v1_top in the place of v1_bottom.
RightEdgeFaces_Repeat(vm, x, y) ==
    LET v1_top    == Lookup(vm, <<x, y, "top">>)
        v2_top    == Lookup(vm, <<x, y + 1, "top">>)
        v2_bottom == Lookup(vm, <<x, y + 1, "bottom">>)
    IN  << <<v1_top, v2_top, v1_top>>, <<v2_top, v2_bottom, v1_top>> >>

RightEdgeFaces(vm, x, y) ==
    LET v1_top    == Lookup(vm, <<x, y, "top">>)
        v2_top    == Lookup(vm, <<x, y + 1, "top">>)
        v1_bottom == Lookup(vm, <<x, y, "bottom">>)
        v2_bottom == Lookup(vm, <<x, y + 1, "bottom">>)
    IN  << <<v1_top, v2_top, v1_bottom>>, <<v2_top, v2_bottom, v1_bottom>> >>

BottomEdgeFaces(vm, x, y) ==
    LET v1_top    == Lookup(vm, <<x, y, "top">>)
        v2_top    == Lookup(vm, <<x + 1, y, "top">>)
        v1_bottom == Lookup(vm, <<x, y, "bottom">>)
        v2_bottom == Lookup(vm, <<x + 1, y, "bottom">>)
    IN  << <<v1_top, v1_bottom, v2_top>>, <<v2_top, v1_bottom, v2_bottom>> >>

LeftEdgeFaces(vm, x, y) ==
    LET v1_top    == Lookup(vm, <<x, y, "top">>)
        v2_top    == Lookup(vm, <<x, y + 1, "top">>)
        v1_bottom == Lookup(vm, <<x, y, "bottom">>)
        v2_bottom == Lookup(vm, <<x, y + 1, "bottom">>)
    IN  << <<v1_top, v1_bottom, v2_top>>, <<v2_top, v1_bottom, v2_bottom>> >>

TopEdgeFaces(vm, x, y) ==
    LET v1_top    == Lookup(vm, <<x, y, "top">>)
        v2_top    == Lookup(vm, <<x + 1, y, "top">>)
        v1_bottom == Lookup(vm, <<x, y, "bottom">>)
        v2_bottom == Lookup(vm, <<x + 1, y, "bottom">>)
    IN  << <<v1_top, v2_top, v1_bottom>>, <<v2_top, v2_bottom, v1_bottom>> >>

\* The body of "for dx, dy in directions" for cell (x, y): the faces appended.
SideFace(mask, vm, hh, ww, x, y, dx, dy) ==
    IF IsEdge(mask, hh, ww, x + dx, y + dy)
    THEN CASE dx = 1 /\ dy = 0 ->
                IF HasCellBelow(mask, hh, y, x) THEN RightEdgeFaces(vm, x, y) ELSE <<>>
           [] dx = 0 /\ dy = 1 ->
                IF HasCellRight(mask, ww, y, x) THEN BottomEdgeFaces(vm, x, y) ELSE <<>>
           [] dx = -1 /\ dy = 0 ->
                IF HasCellBelow(mask, hh, y, x) THEN LeftEdgeFaces(vm, x, y) ELSE <<>>
           [] dx = 0 /\ dy = -1 ->
                IF HasCellRight(mask, ww, y, x) THEN TopEdgeFaces(vm, x, y) ELSE <<>>
           [] OTHER -> <<>>
    ELSE <<>>

\* The subscripts the body of "for dx, dy in directions" reads.
SideFaceReads(mask, hh, ww, x, y, dx, dy) ==
    IsEdgeReads(hh, ww, x + dx, y + dy)
    \cup IF IsEdge(mask, hh, ww, x + dx, y + dy)
         THEN IF dx # 0 /\ dy = 0
              THEN HasCellBelowReads(hh, y, x)
              ELSE IF dx = 0 /\ dy # 0 THEN HasCellRightReads(ww, y, x) ELSE {}
         ELSE {}

\* The subscripts one cell of the side loop reads.
CellSideReads(mask, hh, ww, y, x) ==
    {<<y, x>>}
    \cup IF At(mask, y, x)
         THEN UNION {SideFaceReads(mask, hh, ww, x, y,
                                   directions[k][1], directions[k][2]) : k \in 1..4}
         ELSE {}

\* All four directions of one cell <<y, x>>.
CellSideFaces(mask, vm, hh, ww, y, x) ==
    IF ~At(mask, y, x)
    THEN <<>>
    ELSE SideFace(mask, vm, hh, ww, x, y, directions[1][1], directions[1][2])
         \o SideFace(mask, vm, hh, ww, x, y, directions[2][1], directions[2][2])
         \o SideFace(mask, vm, hh, ww, x, y, directions[3][1], directions[3][2])
         \o SideFace(mask, vm, hh, ww, x, y, directions[4][1], directions[4][2])

RECURSIVE SideLoop(_, _, _, _, _, _, _)
SideLoop(cells, i, acc, mask, vm, hh, ww) ==
    IF i > Len(cells)
    THEN acc
    ELSE SideLoop(cells, i + 1,
                  acc \o CellSideFaces(mask, vm, hh, ww, cells[i][1], cells[i][2]),
                  mask, vm, hh, ww)

SideFaces(hh, ww, mask, vm, fs) ==
    SideLoop(RowMajor(hh, ww), 1, fs, mask, vm, hh, ww)

\* The subscripts the side loop reads.
SideReads(hh, ww, mask) ==
    LET cells == RowMajor(hh, ww)
    IN  UNION {CellSideReads(mask, hh, ww, cells[i][1], cells[i][2]) : i \in 1..Len(cells)}

\* The subscripts the vertex loop reads.
VertexReads(hh, ww) ==
    LET cells == RowMajor(hh, ww)
    IN  {cells[i] : i \in 1..Len(cells)}

\* A subscript of the loop raised IndexError.
IndexError(hh, ww, reads) == \E r \in reads : IndexErrorAt(hh, ww, r[1], r[2])

\* A lookup of the loop raised KeyError: every value looked up is put in a face.
KeyError(fs) == \E i \in 1..Len(fs) : \E j \in 1..3 : fs[i][j] = -1

\* stl_mesh.vectors[i][j] = vertices[face[j], :]
Vectors(vs, fs) ==
    [i \in 1..Len(fs) |->
        <<vs[fs[i][1] + 1], vs[fs[i][2] + 1], vs[fs[i][3] + 1]>>]

----------------------------------------------------------------------------
\* The state machine.

NotWritten == [written |-> FALSE, vectors |-> <<>>]

Unset == <<>>

Init ==
    /\ entry \in {"main", "heightmap_to_stl"}
    /\ \E s \in Shapes :
         /\ h = s[1]
         /\ w = s[2]
         /\ \E opaque \in [Pixels(s[1], s[2]) -> BOOLEAN] :
              \E p \in Patterns : image = ImageOf(s[1], s[2], opaque, p)
    /\ scale_xy \in {1, 2}
    /\ colors = 0
    /\ transparency_mask = Unset
    /\ level_image = Unset
    /\ IF entry = "main"
       THEN /\ heightmap = Unset
            /\ extrusion_mask = Unset
            /\ pc = "reduce_colors"
       ELSE /\ heightmap = HeightmapOf(image)
            /\ extrusion_mask = ExtrusionMaskOf(image)
            /\ pc = "generate_vertices"
    /\ vertices = <<>>
    /\ vertex_map = EmptyMap
    /\ faces = <<>>
    /\ stl_file = NotWritten
    /\ stdout = <<>>
    /\ mask_reads = {}
    /\ ArchiveIdle

\* main, step 2: reduce_colors_kmeans.
ReduceColors ==
    /\ pc = "reduce_colors"
    /\ colors' = NumColors(image)
    /\ transparency_mask' = TransparencyMask(image)
    /\ pc' = "check_colors"
    /\ UNCHANGED archive_vars
    /\ UNCHANGED <<mask_reads, entry, h, w, image, scale_xy, level_image, heightmap,
                   extrusion_mask, vertices, vertex_map, faces, stl_file, stdout>>

\* Mutant of MainNoColors: the check is missing and main goes on.
MainNoColors_Proceeds ==
    /\ pc = "check_colors"
    /\ colors = 0
    /\ level_image' = convert_to_grayscale_levels(image, colors, transparency_mask)
    /\ pc' = "create_heightmap"
    /\ UNCHANGED archive_vars
    /\ UNCHANGED <<mask_reads, entry, h, w, image, scale_xy, colors, transparency_mask,
                   heightmap, extrusion_mask, vertices, vertex_map, faces,
                   stl_file, stdout>>

\* main: if len(colors) == 0: print error, return.
MainNoColors ==
    /\ pc = "check_colors"
    /\ colors = 0
    /\ stdout' = Append(stdout, "Error: No non-transparent pixels found in image!")
    /\ pc' = "exit"
    /\ UNCHANGED archive_vars
    /\ UNCHANGED <<mask_reads, entry, h, w, image, scale_xy, colors, transparency_mask,
                   level_image, heightmap, extrusion_mask, vertices, vertex_map,
                   faces, stl_file>>

\* main, step 3: convert_to_grayscale_levels.
ConvertLevels ==
    /\ pc = "check_colors"
    /\ colors # 0
    /\ level_image' = convert_to_grayscale_levels(image, colors, transparency_mask)
    /\ pc' = "create_heightmap"
    /\ UNCHANGED archive_vars
    /\ UNCHANGED <<mask_reads, entry, h, w, image, scale_xy, colors, transparency_mask,
                   heightmap, extrusion_mask, vertices, vertex_map, faces,
                   stl_file, stdout>>

\* main, step 4: create_heightmap.
CreateHeightmap ==
    /\ pc = "create_heightmap"
    /\ heightmap' = HeightmapOf(level_image)
    /\ extrusion_mask' = ExtrusionMaskOf(level_image)
    /\ pc' = "generate_vertices"
    /\ UNCHANGED archive_vars
    /\ UNCHANGED <<mask_reads, entry, h, w, image, scale_xy, colors, transparency_mask,
                   level_image, vertices, vertex_map, faces, stl_file, stdout>>

\* heightmap_to_stl: the vertex loop, then "if len(vertices) == 0: return".
Vertices ==
    /\ pc = "generate_vertices"
    /\ mask_reads' = mask_reads \cup VertexReads(h, w)
    /\ LET r == GenerateVertices(h, w, heightmap, extrusion_mask, scale_xy)
       IN  /\ vertices' = r.vertices
           /\ vertex_map' = r.vertex_map
           /\ IF Len(r.vertices) = 0
              THEN /\ stdout' = Append(stdout, "Error: No vertices to extrude")
                   /\ pc' = "returned"
              ELSE /\ stdout' = stdout
                   /\ pc' = "top_faces"
    /\ UNCHANGED archive_vars
    /\ UNCHANGED <<entry, h, w, image, scale_xy, colors, transparency_mask,
                   level_image, heightmap, extrusion_mask, faces, stl_file>>

\* One face loop: the faces it leaves, or the exception that ends the program.
FaceLoop(here, fs, reads, next) ==
    /\ pc = here
    /\ mask_reads' = mask_reads \cup reads
    /\ IF IndexError(h, w, reads)
       THEN /\ faces' = faces
            /\ pc' = "IndexError"
       ELSE IF KeyError(fs)
            THEN /\ faces' = faces
                 /\ pc' = "KeyError"
            ELSE /\ faces' = fs
                 /\ pc' = next
    /\ UNCHANGED archive_vars
    /\ UNCHANGED <<entry, h, w, image, scale_xy, colors, transparency_mask,
                   level_image, heightmap, extrusion_mask, vertices, vertex_map,
                   stl_file, stdout>>

Top == FaceLoop("top_faces", TopFaces(h, w, extrusion_mask, vertex_map, faces),
                SurfaceReads(h, w), "bottom_faces")

Bottom == FaceLoop("bottom_faces",
                   BottomFaces(h, w, extrusion_mask, vertex_map, faces),
                   SurfaceReads(h, w), "side_faces")

Sides == FaceLoop("side_faces", SideFaces(h, w, extrusion_mask, vertex_map, faces),
                  SideReads(h, w, extrusion_mask), "check_faces")

\* if len(faces) == 0: print error, return.
NoFaces ==
    /\ pc = "check_faces"
    /\ Len(faces) = 0
    /\ stdout' = Append(stdout, "Error: No faces generated")
    /\ pc' = "returned"
    /\ UNCHANGED archive_vars
    /\ UNCHANGED <<mask_reads, entry, h, w, image, scale_xy, colors, transparency_mask,
                   level_image, heightmap, extrusion_mask, vertices, vertex_map,
                   faces, stl_file>>

\* Build the mesh and save it.
Save ==
    /\ pc = "check_faces"
    /\ Len(faces) # 0
    /\ stl_file' = [written |-> TRUE, vectors |-> Vectors(vertices, faces)]
    /\ stdout' = Append(stdout, "STL file saved")
    /\ pc' = "returned"
    /\ UNCHANGED archive_vars
    /\ UNCHANGED <<mask_reads, entry, h, w, image, scale_xy, colors, transparency_mask,
                   level_image, heightmap, extrusion_mask, vertices, vertex_map,
                   faces>>

\* main, after heightmap_to_stl returned.
MainComplete ==
    /\ pc = "returned"
    /\ entry = "main"
    /\ stdout' = Append(stdout, "Conversion complete!")
    /\ pc' = "exit"
    /\ UNCHANGED archive_vars
    /\ UNCHANGED <<mask_reads, entry, h, w, image, scale_xy, colors, transparency_mask,
                   level_image, heightmap, extrusion_mask, vertices, vertex_map,
                   faces, stl_file>>

Next ==
    \/ ReduceColors
    \/ MainNoColors
    \/ ConvertLevels
    \/ CreateHeightmap
    \/ Vertices
    \/ Top
    \/ Bottom
    \/ Sides
    \/ NoFaces
    \/ Save
    \/ MainComplete

Spec == Init /\ [][Next]_vars

----------------------------------------------------------------------------
\* Vocabulary of the properties.  A cell is <<r, c>> = <<row, col>> = <<y, x>>.

VerticesDone ==
    /\ pc \in {"top_faces", "bottom_faces", "side_faces", "check_faces",
               "returned", "exit"}
    /\ DOMAIN extrusion_mask # {}

FacesDone ==
    /\ pc \in {"check_faces", "returned", "exit"}
    /\ vertices # <<>>

Terminated == pc = IF entry = "main" THEN "exit" ELSE "returned"

Grid == Pixels(h, w)

IsActive(cell) == cell \in DOMAIN extrusion_mask /\ extrusion_mask[cell]

ActiveCells == {cell \in DOMAIN extrusion_mask : extrusion_mask[cell]}

Corners(r, c) == {<<r, c>>, <<r, c + 1>>, <<r + 1, c>>, <<r + 1, c + 1>>}

Windows == (0..(h - 2)) \X (0..(w - 2))

FullWindows == {win \in Windows : Corners(win[1], win[2]) \subseteq ActiveCells}

TopOf(cell) == vertex_map[<<cell[2], cell[1], "top">>]

BottomOf(cell) == vertex_map[<<cell[2], cell[1], "bottom">>]

\* The key of vertex_map that holds index i.
KeyOf(i) == CHOOSE k \in DOMAIN vertex_map : vertex_map[k] = i

FaceCells(f) == {<<KeyOf(f[j])[2], KeyOf(f[j])[1]>> : j \in 1..3}

FaceKinds(f) == {KeyOf(f[j])[3] : j \in 1..3}

FaceVertices(f) == {f[1], f[2], f[3]}

IsTopFace(f) == FaceKinds(f) = {"top"}

IsBottomFace(f) == FaceKinds(f) = {"bottom"}

IsWallFace(f) == FaceKinds(f) = {"top", "bottom"}

FaceIndices == 1..Len(faces)

\* Equal as windings: the same triple up to cyclic rotation.
SameWinding(f, g) ==
    \/ f = g
    \/ f = <<g[2], g[3], g[1]>>
    \/ f = <<g[3], g[1], g[2]>>

\* The normal of a face by the right-hand rule over its vertex order.
Normal(f) ==
    LET p == vertices[f[1] + 1]
        q == vertices[f[2] + 1]
        s == vertices[f[3] + 1]
        a == <<q[1] - p[1], q[2] - p[2], q[3] - p[3]>>
        b == <<s[1] - p[1], s[2] - p[2], s[3] - p[3]>>
    IN  <<a[2] * b[3] - a[3] * b[2],
          a[3] * b[1] - a[1] * b[3],
          a[1] * b[2] - a[2] * b[1]>>

\* The four sides of a cell as <<dr, dc>>.
Right == <<0, 1>>
Down  == <<1, 0>>
Left  == <<0, -1>>
Up    == <<-1, 0>>
Sides4 == {Right, Down, Left, Up}

Neighbour(cell, d) == <<cell[1] + d[1], cell[2] + d[2]>>

\* (a): the lattice-adjacent cell on side d is out of the grid or inactive.
IsBoundarySide(cell, d) == ~IsActive(Neighbour(cell, d))

\* The other corner cell of the edge on side d of a cell.
CornerCell(cell, d) ==
    IF d \in {Left, Right} THEN <<cell[1] + 1, cell[2]>> ELSE <<cell[1], cell[2] + 1>>

\* (a) and (b) for side d of an active cell.
WallExpected(cell, d) ==
    /\ IsActive(cell)
    /\ IsBoundarySide(cell, d)
    /\ IsActive(CornerCell(cell, d))

----------------------------------------------------------------------------
\* C6: the number of vertices is twice the number of active cells; every
\* active cell has exactly one top and one bottom vertex, an inactive cell none.
VertexCountIsTwiceActive ==
    VerticesDone =>
        /\ Len(vertices) = 2 * Cardinality(ActiveCells)
        /\ DOMAIN vertex_map =
             {<<cell[2], cell[1], k>> : cell \in ActiveCells, k \in {"top", "bottom"}}
        /\ \A k1, k2 \in DOMAIN vertex_map :
             vertex_map[k1] = vertex_map[k2] => k1 = k2
        /\ \A k \in DOMAIN vertex_map : vertex_map[k] \in 0..(Len(vertices) - 1)

VertexCountWitness ==
    /\ pc = "top_faces"
    /\ Cardinality(ActiveCells) >= 2
    /\ \E cell \in Grid : ~IsActive(cell)

\* C5: the top and bottom faces are 4 per fully active window, and every one
\* of them lies on the corners of a fully active window.
SurfaceFaceCount ==
    /\ pc = "side_faces" => Len(faces) = 4 * Cardinality(FullWindows)
    /\ FacesDone =>
         /\ Cardinality({i \in FaceIndices : ~IsWallFace(faces[i])})
              = 4 * Cardinality(FullWindows)
         /\ \A i \in FaceIndices :
              ~IsWallFace(faces[i]) =>
                 \E win \in FullWindows :
                    FaceCells(faces[i]) \subseteq Corners(win[1], win[2])

SurfaceFaceCountWitness ==
    /\ pc = "check_faces"
    /\ Cardinality(FullWindows) >= 2
    /\ Windows # FullWindows
    /\ \E i \in FaceIndices : IsWallFace(faces[i])

\* C7: every face has three pairwise distinct indices of allocated vertices.
FaceIndicesValid ==
    \A i \in FaceIndices :
        /\ Cardinality(FaceVertices(faces[i])) = 3
        /\ \A j \in 1..3 : faces[i][j] >= 0 /\ faces[i][j] < Len(vertices)

FaceIndicesWitness ==
    /\ stl_file.written
    /\ \E i \in FaceIndices : IsWallFace(faces[i])
    /\ \E i \in FaceIndices : IsTopFace(faces[i])
    /\ \E i \in FaceIndices : IsBottomFace(faces[i])

\* C8: the number of faces is even, in every state of the run.
FaceCountEven == Len(faces) % 2 = 0

FaceCountEvenWitness ==
    /\ Terminated
    /\ Len(faces) > 0
    /\ FullWindows # {}

\* The faces that lie on the vertices of exactly the two cells c1 and c2.
PairFaces(c1, c2) == {i \in FaceIndices : FaceCells(faces[i]) = {c1, c2}}

\* The sides of cell c1 whose edge ends at the corner cell c2.
SidesTowards(c1, c2) == {d \in Sides4 : CornerCell(c1, d) = c2}

\* C3: side d of an active cell gets a wall quad (two triangles on the top and
\* bottom vertices of the cell and of the corner cell of that edge) exactly when
\* the neighbour on side d is inactive or out of the grid and the corner cell
\* is active; every face that mixes top and bottom vertices is such a triangle.
WallIffBoundaryAndCorner ==
    FacesDone =>
        /\ \A c1 \in ActiveCells :
             \A c2 \in {CornerCell(c1, Right), CornerCell(c1, Down)} :
                LET want == {d \in SidesTowards(c1, c2) : WallExpected(c1, d)}
                    got  == IF IsActive(c2) THEN PairFaces(c1, c2) ELSE {}
                IN  /\ Cardinality(got) = 2 * Cardinality(want)
                    /\ \A i \in got :
                         \E j \in got :
                            FaceVertices(faces[i]) \cup FaceVertices(faces[j])
                              = {TopOf(c1), BottomOf(c1), TopOf(c2), BottomOf(c2)}
        /\ \A i \in FaceIndices :
             IsWallFace(faces[i]) =>
                \E c1 \in ActiveCells :
                   \E d \in Sides4 :
                      /\ WallExpected(c1, d)
                      /\ FaceCells(faces[i]) = {c1, CornerCell(c1, d)}

\* A wall was emitted, a boundary side had no active corner cell (no wall),
\* and a side had an active neighbour (no wall).
WallIffWitness ==
    /\ pc = "check_faces"
    /\ \E c1 \in ActiveCells : \E d \in Sides4 : WallExpected(c1, d)
    /\ \E c1 \in ActiveCells :
         \E d \in Sides4 :
            IsBoundarySide(c1, d) /\ ~IsActive(CornerCell(c1, d))
    /\ \E c1 \in ActiveCells : \E d \in Sides4 : ~IsBoundarySide(c1, d)

\* Exactly one face has the winding <<a, b, c>>.
OneFaceWound(a, b, c) ==
    Cardinality({i \in FaceIndices : SameWinding(faces[i], <<a, b, c>>)}) = 1

\* C4: a fully active window gets the top triangles (TL,TR,BL) and (TR,BR,BL)
\* and the bottom triangles (BL,TR,TL) and (BL,BR,TR), as windings.
WindowWinding ==
    FacesDone =>
        \A win \in FullWindows :
            LET TL == <<win[1], win[2]>>
                TR == <<win[1], win[2] + 1>>
                BL == <<win[1] + 1, win[2]>>
                BR == <<win[1] + 1, win[2] + 1>>
            IN  /\ OneFaceWound(TopOf(TL), TopOf(TR), TopOf(BL))
                /\ OneFaceWound(TopOf(TR), TopOf(BR), TopOf(BL))
                /\ OneFaceWound(BottomOf(BL), BottomOf(TR), BottomOf(TL))
                /\ OneFaceWound(BottomOf(BL), BottomOf(BR), BottomOf(TR))
                /\ Cardinality({i \in FaceIndices :
                                  /\ ~IsWallFace(faces[i])
                                  /\ FaceCells(faces[i]) \subseteq {TL, TR, BL, BR}}) = 4

WindowWindingWitness ==
    /\ pc = "check_faces"
    /\ FullWindows # {}
    /\ \E c1, c2 \in ActiveCells : heightmap[c1] # heightmap[c2]

----------------------------------------------------------------------------
\* Watertightness.

\* The undirected edges of a face.
FaceEdges(f) == {{f[1], f[2]}, {f[2], f[3]}, {f[3], f[1]}}

AllEdges == UNION {FaceEdges(faces[i]) : i \in FaceIndices}

Watertight ==
    \A e \in AllEdges :
        Cardinality({i \in FaceIndices : e \in FaceEdges(faces[i])}) = 2

Adjacent(c1, c2) == \E d \in Sides4 : Neighbour(c1, d) = c2

\* The active cells reachable from the cells of S over 4-adjacency.
RECURSIVE Reach(_)
Reach(S) ==
    LET T == S \cup {c2 \in ActiveCells : \E c1 \in S : Adjacent(c1, c2)}
    IN  IF T = S THEN S ELSE Reach(T)

FourConnected ==
    /\ ActiveCells # {}
    /\ Reach({CHOOSE cell \in ActiveCells : TRUE}) = ActiveCells

\* Every active cell belongs to at least one fully active window.
NoThinParts ==
    \A cell \in ActiveCells :
        \E win \in FullWindows : cell \in Corners(win[1], win[2])

\* C1: the mesh of a 4-connected active region without single-cell-wide
\* parts is watertight.
WatertightMesh ==
    (FacesDone /\ FourConnected /\ NoThinParts) => Watertight

\* The same for the regions that are a full rectangle of the grid.
WatertightRectangle ==
    (FacesDone /\ ActiveCells = Grid /\ NoThinParts) => Watertight

\* Component i of vector n in direction d = <<dr, dc>>: x is the column, y the row.
Towards(n, d) == n[1] * d[2] + n[2] * d[1]

\* C2: every wall triangle of a side of an active cell is wound so that its
\* normal points towards the inactive or out-of-grid neighbour on that side;
\* the top faces point to +z and the bottom faces to -z.
WallNormalsOutward ==
    FacesDone =>
        \A i \in FaceIndices :
            /\ IsTopFace(faces[i]) => Normal(faces[i])[3] > 0
            /\ IsBottomFace(faces[i]) => Normal(faces[i])[3] < 0
            /\ IsWallFace(faces[i]) =>
                 \E c1 \in FaceCells(faces[i]) :
                    \E d \in Sides4 :
                       /\ FaceCells(faces[i]) = {c1, CornerCell(c1, d)}
                       /\ IsBoundarySide(c1, d)
                       /\ Towards(Normal(faces[i]), d) > 0

\* What holds of the top and bottom faces alone.
SurfaceNormals ==
    FacesDone =>
        \A i \in FaceIndices :
            /\ IsTopFace(faces[i]) => Normal(faces[i])[3] > 0
            /\ IsBottomFace(faces[i]) => Normal(faces[i])[3] < 0

\* Every wall triangle points away from the boundary side it closes.
WallNormalsInward ==
    FacesDone =>
        \A i \in FaceIndices :
            IsWallFace(faces[i]) =>
                 \E c1 \in FaceCells(faces[i]) :
                    \E d \in Sides4 :
                       /\ FaceCells(faces[i]) = {c1, CornerCell(c1, d)}
                       /\ IsBoundarySide(c1, d)
                       /\ Towards(Normal(faces[i]), d) < 0

----------------------------------------------------------------------------
\* Outcomes of the pipeline.

Printed(msg) == \E i \in 1..Len(stdout) : stdout[i] = msg

ErrorPrinted ==
    \/ Printed("Error: No non-transparent pixels found in image!")
    \/ Printed("Error: No vertices to extrude")
    \/ Printed("Error: No faces generated")

\* The run ended as a failure: an error was reported, no success was
\* reported and nothing was written.
ErrorOutcome ==
    /\ ErrorPrinted
    /\ ~Printed("Conversion complete!")
    /\ ~Printed("STL file saved")
    /\ ~stl_file.written

NoActiveInput == \A cell \in DOMAIN image : image[cell] < 0

\* C9: active cells but zero faces: the run ends as an error and no mesh is
\* written.
DegenerateIsError ==
    (Terminated /\ Len(vertices) > 0 /\ Len(faces) = 0) => ErrorOutcome

\* The part that holds: the vertex-only buffer is never written.
DegenerateNotWritten ==
    (Len(vertices) > 0 /\ Len(faces) = 0) => ~stl_file.written

\* C10: with zero active cells no vertex is allocated, no face is generated,
\* nothing is written, the face loops are never entered, and the run ends
\* as an error.
EmptyIsError ==
    NoActiveInput =>
        /\ vertices = <<>>
        /\ DOMAIN vertex_map = {}
        /\ faces = <<>>
        /\ ~stl_file.written
        /\ pc \notin {"top_faces", "bottom_faces", "side_faces", "check_faces"}
        /\ entry = "main" => pc \notin {"create_heightmap", "generate_vertices", "returned"}
        /\ Terminated => ErrorOutcome

EmptyIsErrorWitness ==
    /\ NoActiveInput
    /\ entry = "main"
    /\ Terminated
    /\ h * w >= 4

----------------------------------------------------------------------------
\* Counts of the final buffers.

NumFaces(P(_)) == Cardinality({i \in FaceIndices : P(faces[i])})

\* C11: a fully active R x C grid (R, C >= 2) gives 2*R*C vertices,
\* 4*(R-1)*(C-1) top/bottom faces and 4*((R-1)+(C-1)) wall faces; the 2x2
\* block 8 vertices and 2 + 2 + 8 = 12 faces, the 3x3 block 18 vertices and
\* 16 + 16 = 32 faces.
FullGridCounts ==
    (FacesDone /\ ActiveCells = Grid /\ h >= 2 /\ w >= 2) =>
        /\ Len(vertices) = 2 * h * w
        /\ NumFaces(IsTopFace) + NumFaces(IsBottomFace) = 4 * (h - 1) * (w - 1)
        /\ NumFaces(IsTopFace) = NumFaces(IsBottomFace)
        /\ NumFaces(IsWallFace) = 4 * ((h - 1) + (w - 1))
        /\ Len(faces) = 4 * (h - 1) * (w - 1) + 4 * ((h - 1) + (w - 1))
        /\ (h = 2 /\ w = 2) =>
             /\ Len(vertices) = 8
             /\ NumFaces(IsTopFace) = 2
             /\ NumFaces(IsBottomFace) = 2
             /\ NumFaces(IsWallFace) = 8
             /\ Len(faces) = 12
        /\ (h = 3 /\ w = 3) =>
             /\ Len(vertices) = 18
             /\ NumFaces(IsTopFace) + NumFaces(IsBottomFace) = 16
             /\ NumFaces(IsWallFace) = 16
             /\ Len(faces) = 32

FullGridCountsWitness ==
    /\ pc = "check_faces"
    /\ h = 3
    /\ w = 3
    /\ ActiveCells = Grid
    /\ \A c1, c2 \in Grid : heightmap[c1] = heightmap[c2]

\* The sides of active cells that get a wall, as <<cell, side>>.
WallSides == {cs \in ActiveCells \X Sides4 : WallExpected(cs[1], cs[2])}

HoleGrid ==
    /\ h = 3
    /\ w = 3
    /\ ActiveCells = Grid \ {<<1, 1>>}

\* C12: the 3x3 grid with only the centre inactive gives 16 vertices, no top
\* or bottom face and 24 wall triangles: 8 quads on the outer silhouette and
\* 4 on the hole, one from each of the four cells adjacent to the hole.
HoleCounts ==
    (FacesDone /\ HoleGrid) =>
        /\ Len(vertices) = 16
        /\ NumFaces(IsTopFace) = 0
        /\ NumFaces(IsBottomFace) = 0
        /\ NumFaces(IsWallFace) = 24
        /\ Len(faces) = 24
        /\ Cardinality({cs \in WallSides : Neighbour(cs[1], cs[2]) \notin Grid}) = 8
        /\ Cardinality({cs \in WallSides : Neighbour(cs[1], cs[2]) = <<1, 1>>}) = 4
        /\ \A c1 \in {<<0, 1>>, <<1, 0>>, <<1, 2>>, <<2, 1>>} :
             Cardinality({cs \in WallSides :
                             cs[1] = c1 /\ Neighbour(c1, cs[2]) = <<1, 1>>}) = 1
        /\ \A c1 \in ActiveCells :
             \A c2 \in {CornerCell(c1, Right), CornerCell(c1, Down)} :
                IsActive(c2) =>
                   Cardinality(PairFaces(c1, c2))
                     = 2 * Cardinality({cs \in WallSides :
                                          cs[1] = c1 /\ CornerCell(c1, cs[2]) = c2})

HoleCountsWitness ==
    /\ pc = "check_faces"
    /\ HoleGrid
    /\ stdout = <<>>

\* The number of active cells before cell <<r, c>> in row-major order.
Rank(cell) ==
    Cardinality({c0 \in ActiveCells :
                    c0[1] < cell[1] \/ (c0[1] = cell[1] /\ c0[2] < cell[2])})

\* C13: the k-th active cell in row-major order has its top vertex at index
\* 2k, at (col*scale_xy, row*scale_xy, height), and its bottom vertex at
\* index 2k+1, at (col*scale_xy, row*scale_xy, 0).
RowMajorAllocation ==
    VerticesDone =>
        \A cell \in ActiveCells :
            /\ TopOf(cell) = 2 * Rank(cell)
            /\ BottomOf(cell) = 2 * Rank(cell) + 1
            /\ vertices[2 * Rank(cell) + 1]
                 = <<cell[2] * scale_xy, cell[1] * scale_xy, heightmap[cell]>>
            /\ vertices[2 * Rank(cell) + 2]
                 = <<cell[2] * scale_xy, cell[1] * scale_xy, 0>>

RowMajorAllocationWitness ==
    /\ pc = "top_faces"
    /\ h >= 2
    /\ w >= 2
    /\ scale_xy = 2
    /\ Cardinality(ActiveCells) >= 3
    /\ \E cell \in Grid : ~IsActive(cell) /\ \E c2 \in ActiveCells : Rank(c2) > 0 /\ c2[1] > cell[1]
    /\ \E c1, c2 \in ActiveCells : heightmap[c1] # heightmap[c2]

\* C15: every read of the activity mask is inside the grid, every vertex
\* lookup finds its key (a lookup that misses leaves -1 in a face and ends
\* the run in KeyError), for every grid shape and activity pattern.
NoMissingVertex ==
    /\ pc \notin {"KeyError", "IndexError"}
    /\ mask_reads \subseteq Grid
    /\ \A i \in FaceIndices : \A j \in 1..3 : faces[i][j] # -1
    /\ \A i \in FaceIndices :
         \A j \in 1..3 :
            \E cell \in Grid :
               /\ IsActive(cell)
               /\ faces[i][j] \in {TopOf(cell), BottomOf(cell)}

\* A single row: the side loop reads the mask and looks vertices up.
NoMissingVertexWitness ==
    /\ pc = "check_faces"
    /\ h = 1
    /\ w >= 3
    /\ mask_reads = Grid
    /\ Len(faces) > 0
    /\ \E cell \in Grid : ~IsActive(cell)

\* Other heights for the grid of the state: the heights of other cluster
\* patterns over the same mask, and heights that ignore the mask.
AltPatterns == {<<0, 0>>, <<1, 2>>, <<2, 1>>, <<1, 0>>}

AltHeightmaps ==
    {HeightmapOf(ImageOf(h, w, extrusion_mask, p)) : p \in AltPatterns}
    \cup {[c \in Grid |-> 7], [c \in Grid |-> 1 + c[1] + 2 * c[2]]}

\* The face buffer the three face loops build over a vertex map.
FacesOf(vm) ==
    SideFaces(h, w, extrusion_mask, vm,
              BottomFaces(h, w, extrusion_mask, vm,
                          TopFaces(h, w, extrusion_mask, vm, <<>>)))

\* The faces the side loop emits for side d of a cell.
SideFacesAt(cell, d) ==
    SideFace(extrusion_mask, vertex_map, h, w, cell[2], cell[1], d[2], d[1])

\* C16: the faces depend on the mask only: with any other heights over the
\* same grid and mask the vertex map, the x and y of every vertex and the
\* face sequence are the ones of the state, only z of top vertices may
\* differ; a side of an active cell that faces an active cell gets no wall,
\* whatever the two heights.
FacesIgnoreHeights ==
    /\ VerticesDone =>
         \A hm2 \in AltHeightmaps :
            LET r == GenerateVertices(h, w, hm2, extrusion_mask, scale_xy)
            IN  /\ r.vertex_map = vertex_map
                /\ Len(r.vertices) = Len(vertices)
                /\ \A k \in 1..Len(vertices) :
                     /\ r.vertices[k][1] = vertices[k][1]
                     /\ r.vertices[k][2] = vertices[k][2]
                     /\ r.vertices[k][3] # vertices[k][3] => k % 2 = 1
                /\ FacesDone => faces = FacesOf(r.vertex_map)
    /\ FacesDone =>
         /\ \A cell \in ActiveCells :
              \A d \in Sides4 :
                 IsActive(Neighbour(cell, d)) => SideFacesAt(cell, d) = <<>>
         /\ NumFaces(IsWallFace) = 2 * Cardinality(WallSides)

\* Adjacent active cells of different heights, with surface and wall faces,
\* and other heights that differ from the ones of the state.
FacesIgnoreHeightsWitness ==
    /\ pc = "check_faces"
    /\ \E cell \in ActiveCells :
         \E d \in Sides4 :
            /\ IsActive(Neighbour(cell, d))
            /\ heightmap[cell] # heightmap[Neighbour(cell, d)]
    /\ \E i \in FaceIndices : IsWallFace(faces[i])
    /\ \E i \in FaceIndices : IsTopFace(faces[i])
    /\ \E hm2 \in AltHeightmaps : \E cell \in ActiveCells : hm2[cell] # heightmap[cell]

----------------------------------------------------------------------------
\* compress_old_files.py: path names and dates.

\* Defaults of the min_age_months parameters and of run_main.
get_old_monthly_folders_default == 1
discover_old_input_directories_default == 2
run_main_default == 2

DigitChars == <<"0", "1", "2", "3", "4", "5", "6", "7", "8", "9">>

IsDigit(ch) == \E v \in 1..10 : DigitChars[v] = ch

\* int() of one digit.
DigitValue(ch) == (CHOOSE v \in 1..10 : DigitChars[v] = ch) - 1

\* The stem "YYYY-MM" of a month folder, as the sequence of its characters.
Stem(date) ==
    << DigitChars[((date.year \div 1000) % 10) + 1],
       DigitChars[((date.year \div 100) % 10) + 1],
       DigitChars[((date.year \div 10) % 10) + 1],
       DigitChars[(date.year % 10) + 1],
       "-",
       DigitChars[((date.month \div 10) % 10) + 1],
       DigitChars[(date.month % 10) + 1] >>

\* The return value of _get_date_from_path when re.match finds nothing.
None == [year |-> -1, month |-> -1]

\* _get_date_from_path: re.match of [0-9]{4}-[0-9]{1,2} at the start of the stem.
get_date_from_path(stem) ==
    IF /\ Len(stem) >= 6
       /\ \A i \in 1..4 : IsDigit(stem[i])
       /\ stem[5] = "-"
       /\ IsDigit(stem[6])
    THEN [year  |-> 1000 * DigitValue(stem[1]) + 100 * DigitValue(stem[2])
                    + 10 * DigitValue(stem[3]) + DigitValue(stem[4]),
          month |-> IF Len(stem) >= 7 /\ IsDigit(stem[7])
                    THEN 10 * DigitValue(stem[6]) + DigitValue(stem[7])
                    ELSE DigitValue(stem[6])]
    ELSE None

month_difference(year_a, month_a, year_b, month_b) ==
    12 * (year_a - year_b) + (month_a - month_b)

\* _get_old_monthly_folders: the dated directories of basedir of the age asked for.
get_old_monthly_folders(dir, today, min_age) ==
    {stem \in DOMAIN dir :
        /\ dir[stem].is_dir
        /\ LET date == get_date_from_path(stem)
           IN  /\ date # None
               /\ month_difference(today.year, today.month, date.year, date.month)
                    >= min_age}

\* discover_old_input_directories: the input folders of the projects of the
\* old month folders.
discover_old_input_directories(dir, today, exists, min_age) ==
    {stem \in get_old_monthly_folders(dir, today, min_age) : exists[stem]}

\* Mutant of check_archive_for_errors: a bad member is not reported.
check_archive_for_errors_NeverRaises(archive_check_has_error) == "success"

\* _check_archive_for_errors: raise RuntimeError if testzip() names a bad member.
check_archive_for_errors(archive_check_has_error) ==
    IF archive_check_has_error THEN "RuntimeError" ELSE "success"

----------------------------------------------------------------------------
\* compress_old_files.py: the trees and command lines the runs start from.

\* The months of the month folders: MaxAge + 2 months, across a new year.
LastMonth == [year |-> 2024, month |-> 2]

MonthBefore(date, n) ==
    LET k == 12 * date.year + (date.month - 1) - n
    IN  [year |-> k \div 12, month |-> (k % 12) + 1]

Calendar == {MonthBefore(LastMonth, n) : n \in 0..(MaxAge + 1)}

Nows == {LastMonth, MonthBefore(LastMonth, 1)}

GcodeNames == {"a.gcode", "b.gcode"}

\* A month folder is absent, or its project has an input folder and gcode
\* files, or its project has neither.
Full == [is_dir |-> TRUE, input |-> TRUE, gcode |-> GcodeNames]
Bare == [is_dir |-> TRUE, input |-> FALSE, gcode |-> {}]

\* Entries of basedir that are no month folders: a file with a dated name
\* and a directory without a date.
OtherEntries ==
    (Stem([year |-> 2020, month |-> 1]) :> [is_dir |-> FALSE, input |-> FALSE, gcode |-> {}])
    @@ (<<"m", "i", "s", "c">> :> Full)

TreeOf(content) ==
    LET present == {d \in Calendar : content[d] # "absent"}
    IN  [stem \in {Stem(d) : d \in present} |->
            LET date == CHOOSE d \in present : Stem(d) = stem
            IN  IF content[date] = "full" THEN Full ELSE Bare]
        @@ OtherEntries

Trees == {TreeOf(content) : content \in [Calendar -> {"absent", "full", "bare"}]}

CommandLines ==
    {[given |-> FALSE, min_age |-> 0]}
    \cup {[given |-> TRUE, min_age |-> n] : n \in 0..MaxAge}

----------------------------------------------------------------------------
\* compress_old_files.py: the state machine of run_main.

\* svg2stl.py is not running.
MeshIdle ==
    /\ entry = "none"
    /\ h = 0
    /\ w = 0
    /\ image = Unset
    /\ scale_xy = 0
    /\ colors = 0
    /\ transparency_mask = Unset
    /\ level_image = Unset
    /\ heightmap = Unset
    /\ extrusion_mask = Unset
    /\ vertices = <<>>
    /\ vertex_map = EmptyMap
    /\ faces = <<>>
    /\ stl_file = NotWritten
    /\ stdout = <<>>
    /\ mask_reads = {}
    /\ pc = "idle"

InitArchive ==
    /\ MeshIdle
    /\ now \in Nows
    /\ args \in CommandLines
    /\ basedir \in Trees
    /\ min_age_months = 0
    /\ input_dirs_to_compress = {}
    /\ item = <<>>
    /\ archive = [stem \in DOMAIN basedir |-> "none"]
    /\ input_exists = [stem \in DOMAIN basedir |-> basedir[stem].input]
    /\ old_month_folders = {}
    /\ project = <<>>
    /\ gcode_archive = [stem \in DOMAIN basedir |-> [state |-> "none", members |-> {}]]
    /\ gcode_files = [stem \in DOMAIN basedir |-> basedir[stem].gcode]
    /\ stats_count = 0
    /\ apc = "run_main"

\* run_main: min_age_months = int(args.min_age) if args.min_age else 2.
RunMain ==
    /\ apc = "run_main"
    /\ min_age_months' = IF args.given /\ args.min_age # 0
                         THEN args.min_age
                         ELSE run_main_default
    /\ apc' = "compress_input_folders"
    /\ UNCHANGED mesh_vars
    /\ UNCHANGED <<now, args, basedir, input_dirs_to_compress, item, archive,
                   input_exists, old_month_folders, project, gcode_archive,
                   gcode_files, stats_count>>

\* compress_input_folders: discover_old_input_directories(basedir); the
\* parameter min_age_months is not handed on.
compress_input_folders(dir, today, exists, min_age) ==
    discover_old_input_directories(dir, today, exists,
                                   discover_old_input_directories_default)

CompressInputFolders ==
    /\ apc = "compress_input_folders"
    /\ input_dirs_to_compress' =
         compress_input_folders(basedir, now, input_exists, min_age_months)
    /\ apc' = "compress_and_delete_folder"
    /\ UNCHANGED mesh_vars
    /\ UNCHANGED <<now, args, basedir, min_age_months, item, archive, input_exists,
                   old_month_folders, project, gcode_archive, gcode_files,
                   stats_count>>

\* compress_and_delete_folder, next item: shutil.make_archive.
MakeArchive ==
    /\ apc = "compress_and_delete_folder"
    /\ \E next \in input_dirs_to_compress :
         /\ item' = next
         /\ archive' = [archive EXCEPT ![next] = "written"]
    /\ apc' = "check_folder_archive"
    /\ UNCHANGED mesh_vars
    /\ UNCHANGED <<now, args, basedir, min_age_months, input_dirs_to_compress,
                   input_exists, old_month_folders, project, gcode_archive,
                   gcode_files, stats_count>>

\* compress_and_delete_folder: _check_archive_for_errors(archive_path);
\* testzip() names a bad member or returns None.
CheckFolderArchive ==
    /\ apc = "check_folder_archive"
    /\ \E archive_check_has_error \in BOOLEAN :
         /\ archive' = [archive EXCEPT
                           ![item] = IF archive_check_has_error THEN "bad" ELSE "good"]
         /\ apc' = IF check_archive_for_errors(archive_check_has_error) = "RuntimeError"
                   THEN "RuntimeError"
                   ELSE "rmtree"
    /\ UNCHANGED mesh_vars
    /\ UNCHANGED <<now, args, basedir, min_age_months, input_dirs_to_compress, item,
                   input_exists, old_month_folders, project, gcode_archive,
                   gcode_files, stats_count>>

\* compress_and_delete_folder: the sizes, then shutil.rmtree(item).
RmTree ==
    /\ apc = "rmtree"
    /\ input_exists' = [input_exists EXCEPT ![item] = FALSE]
    /\ input_dirs_to_compress' = input_dirs_to_compress \ {item}
    /\ stats_count' = stats_count + 1
    /\ apc' = "compress_and_delete_folder"
    /\ UNCHANGED mesh_vars
    /\ UNCHANGED <<now, args, basedir, min_age_months, item, archive,
                   old_month_folders, project, gcode_archive, gcode_files>>

\* compress_and_delete_folder returns its statistics.
FolderLoopDone ==
    /\ apc = "compress_and_delete_folder"
    /\ input_dirs_to_compress = {}
    /\ apc' = "compress_and_delete_gcode_files"
    /\ UNCHANGED mesh_vars
    /\ UNCHANGED <<now, args, basedir, min_age_months, input_dirs_to_compress, item,
                   archive, input_exists, old_month_folders, project,
                   gcode_archive, gcode_files, stats_count>>

\* compress_and_delete_gcode_files: _get_old_monthly_folders(basedir); the
\* parameter min_age_months is not handed on.
compress_and_delete_gcode_files(dir, today, min_age) ==
    get_old_monthly_folders(dir, today, get_old_monthly_folders_default)

CompressGcodeFiles ==
    /\ apc = "compress_and_delete_gcode_files"
    /\ old_month_folders' = compress_and_delete_gcode_files(basedir, now, min_age_months)
    /\ apc' = "archive_and_delete_gcode_in_dir"
    /\ UNCHANGED mesh_vars
    /\ UNCHANGED <<now, args, basedir, min_age_months, input_dirs_to_compress, item,
                   archive, input_exists, project, gcode_archive, gcode_files,
                   stats_count>>

\* _archive_and_delete_gcode_in_dir for the next project: write every gcode
\* file to the archive, or return empty statistics if there is none.
WriteGcodeArchive ==
    /\ apc = "archive_and_delete_gcode_in_dir"
    /\ \E next \in old_month_folders :
         /\ project' = next
         /\ IF gcode_files[next] # {}
            THEN /\ gcode_archive' =
                      [gcode_archive EXCEPT
                          ![next] = [state |-> "written", members |-> gcode_files[next]]]
                 /\ apc' = "check_gcode_archive"
                 /\ UNCHANGED old_month_folders
            ELSE /\ old_month_folders' = old_month_folders \ {next}
                 /\ UNCHANGED <<gcode_archive, apc>>
    /\ UNCHANGED mesh_vars
    /\ UNCHANGED <<now, args, basedir, min_age_months, input_dirs_to_compress, item,
                   archive, input_exists, gcode_files, stats_count>>

\* _archive_and_delete_gcode_in_dir: _check_archive_for_errors(archive_name).
CheckGcodeArchive ==
    /\ apc = "check_gcode_archive"
    /\ \E archive_check_has_error \in BOOLEAN :
         /\ gcode_archive' =
              [gcode_archive EXCEPT
                  ![project].state = IF archive_check_has_error THEN "bad" ELSE "good"]
         /\ apc' = IF check_archive_for_errors(archive_check_has_error) = "RuntimeError"
                   THEN "RuntimeError"
                   ELSE "remove_gcode"
    /\ UNCHANGED mesh_vars
    /\ UNCHANGED <<now, args, basedir, min_age_months, input_dirs_to_compress, item,
                   archive, input_exists, old_month_folders, project, gcode_files,
                   stats_count>>

\* _archive_and_delete_gcode_in_dir: the statistics, then os.remove of every file.
RemoveGcode ==
    /\ apc = "remove_gcode"
    /\ stats_count' = stats_count + Cardinality(gcode_files[project])
    /\ gcode_files' = [gcode_files EXCEPT ![project] = {}]
    /\ old_month_folders' = old_month_folders \ {project}
    /\ apc' = "archive_and_delete_gcode_in_dir"
    /\ UNCHANGED mesh_vars
    /\ UNCHANGED <<now, args, basedir, min_age_months, input_dirs_to_compress, item,
                   archive, input_exists, project, gcode_archive>>

\* compress_and_delete_gcode_files returns; run_main logs the statistics.
GcodeLoopDone ==
    /\ apc = "archive_and_delete_gcode_in_dir"
    /\ old_month_folders = {}
    /\ apc' = "done"
    /\ UNCHANGED mesh_vars
    /\ UNCHANGED <<now, args, basedir, min_age_months, input_dirs_to_compress, item,
                   archive, input_exists, old_month_folders, project,
                   gcode_archive, gcode_files, stats_count>>

NextArchive ==
    \/ RunMain
    \/ CompressInputFolders
    \/ MakeArchive
    \/ CheckFolderArchive
    \/ RmTree
    \/ FolderLoopDone
    \/ CompressGcodeFiles
    \/ WriteGcodeArchive
    \/ CheckGcodeArchive
    \/ RemoveGcode
    \/ GcodeLoopDone

SpecArchive == InitArchive /\ [][NextArchive]_vars

----------------------------------------------------------------------------
\* Vocabulary of the properties of the archive tool.

\* The month folders of basedir: directories whose name starts with a date.
MonthFolders ==
    {stem \in DOMAIN basedir : basedir[stem].is_dir /\ get_date_from_path(stem) # None}

\* month_difference(now.year, now.month, Y, M) of a month folder.
AgeOf(stem) ==
    LET date == get_date_from_path(stem)
    IN  month_difference(now.year, now.month, date.year, date.month)

\* The --min-age the user supplied, 2 when it was not given.
SuppliedMinAge == IF args.given THEN args.min_age ELSE run_main_default

\* The input-folder compression touched the month folder.
InputTouched(stem) == archive[stem] # "none"

\* The gcode archiving touched the month folder.
GcodeTouched(stem) == gcode_archive[stem].state # "none"

\* C14: when run_main has ended, no month folder younger than the supplied
\* --min-age (2 if none was given) was touched by the input-folder compression
\* or by the gcode archiving, and every month folder at least that old was
\* touched by both (where it holds an input folder, and gcode files).
MinAgeHonoured ==
    apc = "done" =>
        \A stem \in MonthFolders :
           /\ AgeOf(stem) < SuppliedMinAge =>
                ~InputTouched(stem) /\ ~GcodeTouched(stem)
           /\ AgeOf(stem) >= SuppliedMinAge =>
                /\ basedir[stem].input => InputTouched(stem)
                /\ basedir[stem].gcode # {} => GcodeTouched(stem)

\* What run_main does with any --min-age: input folders of month folders of
\* age >= 2 and gcode files of month folders of age >= 1.
DefaultAgesUsed ==
    apc = "done" =>
        \A stem \in MonthFolders :
           /\ InputTouched(stem)
                <=> (basedir[stem].input
                       /\ AgeOf(stem) >= discover_old_input_directories_default)
           /\ GcodeTouched(stem)
                <=> (basedir[stem].gcode # {}
                       /\ AgeOf(stem) >= get_old_monthly_folders_default)

\* C17: an input folder is gone only if its archive was written and passed
\* the check; the gcode files of a project are gone only if all of them are
\* members of its archive and the archive passed the check; when the check
\* raised RuntimeError, the folder or files in work and those not yet
\* processed are all still on disk.
DeleteOnlyAfterCheck ==
    /\ \A stem \in DOMAIN basedir :
          /\ (basedir[stem].input /\ ~input_exists[stem]) => archive[stem] = "good"
          /\ gcode_files[stem] # basedir[stem].gcode =>
                /\ gcode_files[stem] = {}
                /\ gcode_archive[stem] = [state |-> "good", members |-> basedir[stem].gcode]
    /\ (apc = "RuntimeError" /\ project = <<>>) =>
          /\ archive[item] = "bad"
          /\ \A stem \in input_dirs_to_compress \cup {item} : input_exists[stem]
          /\ \A stem \in DOMAIN basedir : gcode_files[stem] = basedir[stem].gcode
    /\ (apc = "RuntimeError" /\ project # <<>>) =>
          /\ gcode_archive[project].state = "bad"
          /\ \A stem \in old_month_folders \cup {project} :
                gcode_files[stem] = basedir[stem].gcode

\* The check of a gcode archive raised, after an input folder and the gcode
\* files of another project were deleted, with a project still to come.
DeleteOnlyAfterCheckWitness ==
    /\ apc = "RuntimeError"
    /\ project # <<>>
    /\ \E stem \in DOMAIN basedir : basedir[stem].input /\ ~input_exists[stem]
    /\ \E stem \in DOMAIN basedir : basedir[stem].gcode # {} /\ gcode_files[stem] = {}
    /\ \E stem \in old_month_folders :
          stem # project /\ gcode_files[stem] # {}

====
